---- MODULE Spec2Model ----
(***************************************************************************)
(* Model of osm.py: the grid tiler (divide_area_to_bboxes), the per-cell   *)
(* fetcher (fetch_osm_by_bbox), the merger (merge_osm_files) and the       *)
(* driver (main).                                                          *)
(*                                                                         *)
(* Python floats are IEEE-754 binary64.  They are modelled exactly: a      *)
(* float is a record [s, m, e] of value s * m * 2^e, the mantissa m an     *)
(* arbitrary-precision natural (little-endian limbs), and every operation  *)
(* rounds its exact result to 53 significant bits, ties to even.           *)
(* Exponent overflow and subnormals do not occur for the magnitudes used   *)
(* (geographic coordinates) and are not modelled.                          *)
(***************************************************************************)
EXTENDS Integers, Sequences, FiniteSets, TLC

(***************************************************************************)
(* Arbitrary-precision naturals: little-endian limbs, no high zero limb.   *)
(***************************************************************************)
LimbBits == 15
LimbBase == 2^LimbBits

RECURSIVE Pow2(_)
Pow2(n) == IF n = 0 THEN 1 ELSE 2 * Pow2(n - 1)

RECURSIVE NatNorm(_)
NatNorm(a) ==
    IF a = <<>> THEN <<>>
    ELSE IF a[Len(a)] = 0 THEN NatNorm(SubSeq(a, 1, Len(a) - 1))
    ELSE a

RECURSIVE NatFromInt(_)
NatFromInt(n) ==
    IF n = 0 THEN <<>>
    ELSE <<n % LimbBase>> \o NatFromInt(n \div LimbBase)

RECURSIVE NatToInt(_)
NatToInt(a) ==
    IF a = <<>> THEN 0
    ELSE a[1] + LimbBase * NatToInt(Tail(a))

RECURSIVE NatCmpFrom(_, _, _)
NatCmpFrom(a, b, k) ==
    IF k = 0 THEN 0
    ELSE IF a[k] < b[k] THEN -1
    ELSE IF a[k] > b[k] THEN 1
    ELSE NatCmpFrom(a, b, k - 1)

NatCmp(a, b) ==
    IF Len(a) < Len(b) THEN -1
    ELSE IF Len(a) > Len(b) THEN 1
    ELSE NatCmpFrom(a, b, Len(a))

Limb(a, k) == IF k <= Len(a) THEN a[k] ELSE 0

RECURSIVE NatAddFrom(_, _, _, _)
NatAddFrom(a, b, k, c) ==
    IF k > Len(a) /\ k > Len(b)
    THEN (IF c = 0 THEN <<>> ELSE <<c>>)
    ELSE LET t == Limb(a, k) + Limb(b, k) + c
         IN  <<t % LimbBase>> \o NatAddFrom(a, b, k + 1, t \div LimbBase)

NatAdd(a, b) == NatAddFrom(a, b, 1, 0)

\* a - b for a >= b
RECURSIVE NatSubFrom(_, _, _, _)
NatSubFrom(a, b, k, c) ==
    IF k > Len(a) THEN <<>>
    ELSE LET t == Limb(a, k) - Limb(b, k) - c
         IN  IF t < 0
             THEN <<t + LimbBase>> \o NatSubFrom(a, b, k + 1, 1)
             ELSE <<t>> \o NatSubFrom(a, b, k + 1, 0)

NatSub(a, b) == NatNorm(NatSubFrom(a, b, 1, 0))

\* a * s for 0 <= s < LimbBase
RECURSIVE NatMulSmallFrom(_, _, _, _)
NatMulSmallFrom(a, s, k, c) ==
    IF k > Len(a)
    THEN (IF c = 0 THEN <<>> ELSE <<c>>)
    ELSE LET t == a[k] * s + c
         IN  <<t % LimbBase>> \o NatMulSmallFrom(a, s, k + 1, t \div LimbBase)

NatMulSmall(a, s) == NatNorm(NatMulSmallFrom(a, s, 1, 0))

RECURSIVE NatMul(_, _)
NatMul(a, b) ==
    IF b = <<>> \/ a = <<>> THEN <<>>
    ELSE NatAdd(NatMulSmall(a, b[1]), NatNorm(<<0>> \o NatMul(a, Tail(b))))

Zeros(n) == [k \in 1..n |-> 0]

NatShl(a, n) ==
    IF a = <<>> THEN <<>>
    ELSE NatMulSmall(Zeros(n \div LimbBits) \o a, Pow2(n % LimbBits))

\* floor(a / s) for 0 < s < LimbBase, limbs from the top down
RECURSIVE NatDivSmallFrom(_, _, _, _)
NatDivSmallFrom(a, s, k, r) ==
    IF k = 0 THEN <<>>
    ELSE LET t == r * LimbBase + a[k]
         IN  NatDivSmallFrom(a, s, k - 1, t % s) \o <<t \div s>>

NatDivSmall(a, s) == NatNorm(NatDivSmallFrom(a, s, Len(a), 0))

NatShr(a, n) ==
    IF n \div LimbBits >= Len(a) THEN <<>>
    ELSE NatDivSmall(SubSeq(a, n \div LimbBits + 1, Len(a)), Pow2(n % LimbBits))

RECURSIVE SmallBitLen(_)
SmallBitLen(n) == IF n = 0 THEN 0 ELSE 1 + SmallBitLen(n \div 2)

BitLen(a) ==
    IF a = <<>> THEN 0
    ELSE LimbBits * (Len(a) - 1) + SmallBitLen(a[Len(a)])

\* bit k (0 = least significant) of a
NatBit(a, k) == (Limb(a, k \div LimbBits + 1) \div Pow2(k % LimbBits)) % 2

NatOdd(a) == a # <<>> /\ a[1] % 2 = 1

\* one quotient limb: [q |-> floor(r/b), r |-> r mod b] for r < b * LimbBase,
\* trying the bits of the limb from bit t down
RECURSIVE NatDivDigit(_, _, _)
NatDivDigit(r, b, t) ==
    IF t < 0 THEN [q |-> 0, r |-> r]
    ELSE LET bt == NatShl(b, t)
         IN  IF NatCmp(r, bt) >= 0
             THEN LET lo == NatDivDigit(NatSub(r, bt), b, t - 1)
                  IN  [q |-> Pow2(t) + lo.q, r |-> lo.r]
             ELSE NatDivDigit(r, b, t - 1)

\* long division, one numerator limb per step: the quotient and remainder of
\* the limbs of a from limb k upward
RECURSIVE NatDivFrom(_, _, _)
NatDivFrom(a, b, k) ==
    IF k > Len(a) THEN [q |-> <<>>, r |-> <<>>]
    ELSE LET hi == NatDivFrom(a, b, k + 1)
             dg == NatDivDigit(NatNorm(<<a[k]>> \o hi.r), b, LimbBits - 1)
         IN  [q |-> NatNorm(<<dg.q>> \o hi.q), r |-> dg.r]

\* [q |-> floor(a/b), r |-> a mod b] for b > 0
NatDivMod(a, b) == NatDivFrom(a, b, 1)

RECURSIVE TrailingZeros(_)
TrailingZeros(a) ==
    IF a = <<>> THEN 0
    ELSE IF a[1] = 0 THEN LimbBits + TrailingZeros(Tail(a))
    ELSE IF a[1] % 2 = 1 THEN 0
    ELSE 1 + TrailingZeros(<<a[1] \div 2>>)

(***************************************************************************)
(* binary64 floats.  Canonical form: m odd, or m = 0 with s = 1, e = 0, so *)
(* that equal values are equal records.                                    *)
(***************************************************************************)
MantBits == 53

FZero == [s |-> 1, m |-> <<>>, e |-> 0]

FCanon(s, m, e) ==
    IF m = <<>> THEN FZero
    ELSE LET tz == TrailingZeros(m)
         IN  [s |-> s, m |-> NatShr(m, tz), e |-> e + tz]

\* the float nearest to s * m * 2^e, ties to even
FRound(s, m, e) ==
    IF BitLen(m) <= MantBits THEN FCanon(s, m, e)
    ELSE LET d    == BitLen(m) - MantBits
             q    == NatShr(m, d)
             r    == NatSub(m, NatShl(q, d))
             c    == NatCmp(r, NatShl(<<1>>, d - 1))
             up   == c > 0 \/ (c = 0 /\ NatOdd(q))
         IN  FCanon(s, IF up THEN NatAdd(q, <<1>>) ELSE q, e + d)

FromInt(i) == FCanon(IF i < 0 THEN -1 ELSE 1, NatFromInt(IF i < 0 THEN -i ELSE i), 0)

FNeg(a) == IF a.m = <<>> THEN a ELSE [a EXCEPT !.s = -a.s]

MinInt(x, y) == IF x < y THEN x ELSE y

\* exact signed sum as [s, m, e], before rounding
FExactAdd(a, b) ==
    LET e  == MinInt(a.e, b.e)
        am == NatShl(a.m, a.e - e)
        bm == NatShl(b.m, b.e - e)
    IN  IF a.s = b.s THEN [s |-> a.s, m |-> NatAdd(am, bm), e |-> e]
        ELSE IF NatCmp(am, bm) >= 0
             THEN [s |-> a.s, m |-> NatSub(am, bm), e |-> e]
             ELSE [s |-> b.s, m |-> NatSub(bm, am), e |-> e]

FAdd(a, b) == LET x == FExactAdd(a, b) IN FRound(x.s, x.m, x.e)

FSub(a, b) == FAdd(a, FNeg(b))

FMul(a, b) == FRound(a.s * b.s, NatMul(a.m, b.m), a.e + b.e)

\* a / b for b # 0: 56 or more quotient bits and a sticky bit, then rounded
FDiv(a, b) ==
    IF a.m = <<>> THEN FZero
    ELSE LET k0 == MantBits + 3 + BitLen(b.m) - BitLen(a.m)
             k  == IF k0 < 0 THEN 0 ELSE k0
             d  == NatDivMod(NatShl(a.m, k), b.m)
             st == IF d.r = <<>> THEN <<>> ELSE <<1>>
         IN  FRound(a.s * b.s, NatAdd(NatAdd(d.q, d.q), st), a.e - b.e - k - 1)

\* a < b
FLess(a, b) ==
    LET x == FExactAdd(a, FNeg(b)) IN x.m # <<>> /\ x.s = -1

FLeq(a, b) == ~FLess(b, a)

\* Python min(a, b): the first argument unless the second is smaller
FMin(a, b) == IF FLess(b, a) THEN b ELSE a

\* Python int(a): truncation toward zero
FInt(a) ==
    IF a.e >= 0 THEN a.s * NatToInt(NatShl(a.m, a.e))
    ELSE a.s * NatToInt(NatShr(a.m, -a.e))

\* the float a decimal literal n / p10 denotes (p10 a power of ten)
Dec(n, p10) == FDiv(FromInt(n), FromInt(p10))

(***************************************************************************)
(* divide_area_to_bboxes: the Tiler.  A bbox is the Python tuple           *)
(* (min_lat, min_lon, max_lat, max_lon).                                   *)
(***************************************************************************)
\* a count without the extra row or column: int((max - min) / step)
GridStepsNoExtra(lo, hi, step) == FInt(FDiv(FSub(hi, lo), step))

\* lat_steps / lon_steps: int((max - min) / step) + 1
GridSteps(lo, hi, step) == FInt(FDiv(FSub(hi, lo), step)) + 1

\* the tuple appended for loop indices i, j
MakeBbox(min_lat, max_lat, min_lon, max_lon, step, i, j) ==
    << FAdd(min_lat, FMul(FromInt(i), step)),
       FAdd(min_lon, FMul(FromInt(j), step)),
       FMin(FAdd(min_lat, FMul(FromInt(i + 1), step)), max_lat),
       FMin(FAdd(min_lon, FMul(FromInt(j + 1), step)), max_lon) >>

\* for j in range(lon_steps), from j on: the tuples row i appends
RECURSIVE InnerLoop(_, _, _, _, _, _, _, _)
InnerLoop(min_lat, max_lat, min_lon, max_lon, step, lon_steps, i, j) ==
    IF j >= lon_steps THEN <<>>
    ELSE <<MakeBbox(min_lat, max_lat, min_lon, max_lon, step, i, j)>>
         \o InnerLoop(min_lat, max_lat, min_lon, max_lon, step, lon_steps, i, j + 1)

\* for i in range(lat_steps), from i on
RECURSIVE OuterLoop(_, _, _, _, _, _, _, _)
OuterLoop(min_lat, max_lat, min_lon, max_lon, step, lat_steps, lon_steps, i) ==
    IF i >= lat_steps THEN <<>>
    ELSE InnerLoop(min_lat, max_lat, min_lon, max_lon, step, lon_steps, i, 0)
         \o OuterLoop(min_lat, max_lat, min_lon, max_lon, step, lat_steps, lon_steps, i + 1)

divide_area_to_bboxes(min_lat, max_lat, min_lon, max_lon, step) ==
    OuterLoop(min_lat, max_lat, min_lon, max_lon, step,
              GridSteps(min_lat, max_lat, step),
              GridSteps(min_lon, max_lon, step), 0)

(***************************************************************************)
(* Inputs of the Tiler: one-axis ranges [lo, hi] and steps, written as the *)
(* decimal literals a caller would pass.                                   *)
(***************************************************************************)
MaxTiles == 8

AxisRanges ==
    { <<Dec(225, 10), Dec(227, 10)>>,      \* 22.5 .. 22.7
      <<Dec(1125, 10), Dec(1127, 10)>>,    \* 112.5 .. 112.7
      <<FromInt(0), FromInt(1)>>,
      <<FromInt(0), FromInt(0)>>,
      <<Dec(3, 10), Dec(9, 10)>>,          \* 0.3 .. 0.9
      <<Dec(8, 10), Dec(29, 10)>>,         \* 0.8 .. 2.9
      <<Dec(227, 10), Dec(225, 10)>>,      \* max < min
      <<Dec(5, 10), FromInt(0)>> }         \* max < min

StepValues == { Dec(1, 10), Dec(2, 10), Dec(7, 10), FromInt(1) }

TilerArgs ==
    { [min_lat |-> la[1], max_lat |-> la[2], min_lon |-> lo[1], max_lon |-> lo[2],
       step |-> st] : la \in AxisRanges, lo \in AxisRanges, st \in StepValues }

TileCount(a) ==
    LET r == GridSteps(a.min_lat, a.max_lat, a.step)
        c == GridSteps(a.min_lon, a.max_lon, a.step)
    IN  IF r <= 0 \/ c <= 0 THEN 0 ELSE r * c

(***************************************************************************)
(* Text.  A str is a sequence of one-character strings; file names, file   *)
(* contents and lines are such sequences.                                  *)
(***************************************************************************)
\* str.startswith
StartsWith(s, p) == Len(s) >= Len(p) /\ SubSeq(s, 1, Len(p)) = p

\* str.endswith
EndsWith(s, p) == Len(s) >= Len(p) /\ SubSeq(s, Len(s) - Len(p) + 1, Len(s)) = p

Digits == <<"0", "1", "2", "3", "4", "5", "6", "7", "8", "9">>

\* the decimal text of n >= 0, as an f-string formats an int
RECURSIVE Str(_)
Str(n) == IF n < 10 THEN <<Digits[n + 1]>> ELSE Str(n \div 10) \o <<Digits[(n % 10) + 1]>>

\* the positions at which a line of t ends, in order: each newline, and the
\* last character
LineEnds(t) ==
    LET IsEnd(k) == t[k] = "\n" \/ k = Len(t)
    IN  SelectSeq([k \in 1..Len(t) |-> k], IsEnd)

\* the lines of s that end at the positions ends
LinesAt(s, ends) ==
    [ j \in 1..Len(ends) |->
        SubSeq(s, IF j = 1 THEN 1 ELSE ends[j - 1] + 1, ends[j]) ]

\* for line in infile: the lines of t, each with its newline, the last one
\* possibly without (the file is read once: s is the text read)
SplitLines(t) == CHOOSE lines \in { LinesAt(s, LineEnds(s)) : s \in {t} } : TRUE

XmlDecl ==
    <<"<","?","x","m","l"," ","v","e","r","s","i","o","n","=","\"","1",".",
      "0","\""," ","e","n","c","o","d","i","n","g","=","\"","U","T","F","-",
      "8","\"","?",">","\n">>

OsmOpen ==
    <<"<","o","s","m"," ","v","e","r","s","i","o","n","=","\"","0",".","6",
      "\"",">","\n">>

OsmClose == <<"<","/","o","s","m",">">>

XmlPrefix == <<"<","?","x","m","l">>

OsmPrefix == <<"<","o","s","m">>

OsmClosePrefix == <<"<","/","o","s","m">>

OsmSuffix == <<".","o","s","m">>

PartPrefix == <<"g","u","a","n","g","z","h","o","u","_","p","a","r","t","_">>

(***************************************************************************)
(* fetch_osm_by_bbox.  A response is [ok, text]: ok is FALSE when          *)
(* requests.post or raise_for_status raised a RequestException.            *)
(***************************************************************************)
\* a Fetcher that opens the output file before the request: a failed call
\* leaves an empty file
FetchWriteOpenFirst(dir, output_file, resp) == (output_file :> resp.text) @@ dir

\* the artifact directory after the call: the body is written on success only
FetchWrite(dir, output_file, resp) ==
    IF resp.ok THEN (output_file :> resp.text) @@ dir ELSE dir

\* the number of 2-second pauses taken so far, after the call
FetchSleep(n, resp) == IF resp.ok THEN n + 1 ELSE n

(***************************************************************************)
(* merge_osm_files.  The output file is the sequence of strings written.   *)
(***************************************************************************)
\* a copy loop that forgets the closing root tag
SkipLineNoClose(line) ==
    \/ StartsWith(line, XmlPrefix)
    \/ StartsWith(line, OsmPrefix)

\* the lines the copy loop skips
SkipLine(line) ==
    \/ StartsWith(line, XmlPrefix)
    \/ StartsWith(line, OsmPrefix)
    \/ StartsWith(line, OsmClosePrefix)

\* the lines the copy loop writes
KeepLine(line) == ~SkipLine(line)

\* for line in infile: the writes one input file causes
CopyLines(lines) == SelectSeq(lines, KeepLine)

\* for file in files: the writes the input files cause, in listing order
RECURSIVE CopyFiles(_, _)
CopyFiles(dir, files) ==
    IF files = <<>> THEN <<>>
    ELSE CopyLines(SplitLines(dir[Head(files)])) \o CopyFiles(dir, Tail(files))

\* the names the listing keeps
OsmFiles(dir) == { f \in DOMAIN dir : EndsWith(f, OsmSuffix) }

\* everything merge_osm_files writes, for the listing order files
MergeWrites(dir, files) ==
    <<XmlDecl, OsmOpen>> \o CopyFiles(dir, files) \o <<OsmClose>>

\* os.listdir gives the names in an order the file system chooses
\* (T is the set of the names still to list)
RECURSIVE Orders(_)
Orders(S) ==
    IF S = {} THEN {<<>>}
    ELSE UNION { UNION { { <<f>> \o p : p \in Orders(T) } : T \in {S \ {f}} } : f \in S }

(***************************************************************************)
(* main.                                                                   *)
(***************************************************************************)
\* the literals of main
MainArgs ==
    [min_lat |-> Dec(225, 10), max_lat |-> Dec(235, 10),
     min_lon |-> Dec(1125, 10), max_lon |-> Dec(1140, 10), step |-> Dec(1, 10)]

\* one artifact name for every cell
OutputFileShared(i) == PartPrefix \o OsmSuffix

\* artifact names counted from 0
OutputFileZeroBased(i) == PartPrefix \o Str(i) \o OsmSuffix

\* os.path.join(output_folder, f"guangzhou_part_{i + 1}.osm"), as a name in
\* output_folder, for the enumerate index i
OutputFile(i) == PartPrefix \o Str(i + 1) \o OsmSuffix

(***************************************************************************)
(* The environment: what the service answers and what the artifact         *)
(* directory holds before the run.                                         *)
(***************************************************************************)
MaxCells == 4
MaxElems == 1

OverpassOpen ==
    <<"<","o","s","m"," ","v","e","r","s","i","o","n","=","\"","0",".","6",
      "\""," ","g","e","n","e","r","a","t","o","r","=","\"","O","v","e","r",
      "p","a","s","s"," ","A","P","I","\"",">","\n">>

OverpassClose == <<"<","/","o","s","m",">","\n">>

\* element j of the answer to request k
ElementLine(k, j) ==
    <<" "," ","<","n","o","d","e"," ","i","d","=","\"">> \o Str(k)
    \o <<"\""," ","v","e","r","s","i","o","n","=","\"">> \o Str(j)
    \o <<"\"","/",">","\n">>

RECURSIVE ElementLines(_, _)
ElementLines(k, n) ==
    IF n = 0 THEN <<>> ELSE ElementLines(k, n - 1) \o ElementLine(k, n)

\* a 200 answer to request k holding n elements
ResponseText(k, n) == XmlDecl \o OverpassOpen \o ElementLines(k, n) \o OverpassClose

Responses(k) ==
    { [ok |-> FALSE, text |-> <<>>] }
    \cup { [ok |-> TRUE, text |-> ResponseText(k, n)] : n \in 0..MaxElems }

StaleText ==
    <<"<","?","x","m","l"," ","v","e","r","s","i","o","n","=","\"","1",".",
      "0","\"","?",">","\n","<","o","s","m"," ","v","e","r","s","i","o","n",
      "=","\"","0",".","6","\"",">","\n"," "," ","<","w","a","y"," ","i",
      "d","=","\"","o","l","d","\"","/",">","\n","<","/","o","s","m",">",
      "\n">>

OddText ==
    <<"<","o","s","m","A","u","t","h","o","r",">","x","<","/","o","s","m",
      "A","u","t","h","o","r",">","\n"," "," ","<","o","s","m",">","\n","<",
      "t","a","g"," ","k","=","\"","a","\"","/",">">>

NotesText ==
    <<" "," ","<","n","o","d","e"," ","i","d","=","\"","n","o","t","e","\"",
      "/",">","\n">>

NotesName == <<"n","o","t","e","s",".","t","x","t">>

OddName == <<"o","l","d",".","o","s","m">>

BackupName == <<"m","a","p",".","o","s","m",".","b","a","k">>

NoFiles == [f \in {} |-> <<>>]

\* [exists, files]: osm_data before the run
InitialFolders ==
    { [exists |-> FALSE, files |-> NoFiles],
      [exists |-> TRUE,  files |-> NoFiles],
      [exists |-> TRUE,  files |-> (OutputFile(0) :> StaleText) @@ (BackupName :> NotesText)],
      [exists |-> TRUE,  files |-> (NotesName :> NotesText) @@ (OddName :> OddText)] }

Area(a, b, c, d, st) ==
    [min_lat |-> a, max_lat |-> b, min_lon |-> c, max_lon |-> d, step |-> st]

\* the areas main is run on: its own, and smaller ones
DriverAreas ==
    { MainArgs,
      Area(Dec(225, 10), Dec(225, 10), Dec(1125, 10), Dec(1125, 10), Dec(1, 10)),
      Area(Dec(225, 10), Dec(227, 10), Dec(1125, 10), Dec(1125, 10), Dec(1, 10)),
      Area(Dec(225, 10), Dec(225, 10), Dec(1125, 10), Dec(1127, 10), Dec(1, 10)),
      Area(FromInt(0), FromInt(1), FromInt(0), FromInt(1), FromInt(1)),
      Area(Dec(225, 10), Dec(227, 10), Dec(1125, 10), Dec(1127, 10), Dec(1, 10)) }

(***************************************************************************)
(* State.                                                                  *)
(***************************************************************************)
VARIABLES
    pc,        \* "tiler"/"tiled": a Tiler call; "main","fetch","done": main
    args,      \* min_lat, max_lat, min_lon, max_lon, step
    grid,      \* in a run of main: the value of the Tiler, a pure function, on args
    bboxes,    \* the list divide_area_to_bboxes returned
    i,         \* the enumerate index of the next fetch
    exists,    \* os.path.exists(output_folder)
    dir,       \* output_folder: file name -> content
    dir0,      \* [exists, files] of output_folder before the run
    calls,     \* per fetch call made: [bbox, output_file, ok, text]
    sleeps,    \* number of time.sleep(2) executed
    files,     \* the listing merge_osm_files iterated
    out,       \* final_output_file: the strings written to it
    merges     \* number of merge_osm_files calls

vars == <<pc, args, grid, bboxes, i, exists, dir, dir0, calls, sleeps, files, out, merges>>

driverVars == <<grid, i, exists, dir, dir0, calls, sleeps, files, out, merges>>

Idle ==
    /\ grid = <<>>
    /\ i = 0 /\ exists = FALSE /\ dir = NoFiles
    /\ dir0 = [exists |-> FALSE, files |-> NoFiles]
    /\ calls = <<>> /\ sleeps = 0 /\ files = <<>> /\ out = <<>> /\ merges = 0

(***************************************************************************)
(* A call of the Tiler on its own.                                         *)
(***************************************************************************)
TilerInit ==
    /\ pc = "tiler"
    /\ args \in { a \in TilerArgs : TileCount(a) <= MaxTiles }
    /\ bboxes = <<>>
    /\ Idle

TilerCall ==
    /\ pc = "tiler"
    /\ bboxes' = divide_area_to_bboxes(args.min_lat, args.max_lat,
                                       args.min_lon, args.max_lon, args.step)
    /\ pc' = "tiled"
    /\ UNCHANGED <<args, driverVars>>

TilerNext == TilerCall

TilerSpec == TilerInit /\ [][TilerNext]_vars

(***************************************************************************)
(* A run of main.                                                          *)
(***************************************************************************)
\* the areas of the runs explored
RunAreas == { a \in DriverAreas : TileCount(a) <= MaxCells }

Init ==
    /\ pc = "main"
    /\ args \in RunAreas
    /\ grid = divide_area_to_bboxes(args.min_lat, args.max_lat,
                                    args.min_lon, args.max_lon, args.step)
    /\ bboxes = <<>>
    /\ dir0 \in InitialFolders
    /\ exists = dir0.exists
    /\ dir = dir0.files
    /\ i = 0 /\ calls = <<>> /\ sleeps = 0
    /\ files = <<>> /\ out = <<>> /\ merges = 0

\* main up to the fetch loop: the grid, then the output folder
main ==
    /\ pc = "main"
    /\ bboxes' = grid
    /\ exists' = TRUE
    /\ pc' = "fetch"
    /\ UNCHANGED <<args, grid, i, dir, dir0, calls, sleeps, files, out, merges>>

\* a loop that a failed call ends
AfterFetchBreak(idx, resp) == IF resp.ok THEN idx + 1 ELSE Len(bboxes)

\* the loop index after the call for index idx returned: the except clause
\* swallows the failure and the loop goes on
AfterFetch(idx, resp) == idx + 1

\* one iteration of the fetch loop
fetch_osm_by_bbox ==
    /\ pc = "fetch"
    /\ i < Len(bboxes)
    /\ \E resp \in Responses(i + 1) :
          /\ dir' = FetchWrite(dir, OutputFile(i), resp)
          /\ sleeps' = FetchSleep(sleeps, resp)
          /\ calls' = Append(calls, [bbox |-> bboxes[i + 1], output_file |-> OutputFile(i),
                                     ok |-> resp.ok, text |-> resp.text])
          /\ i' = AfterFetch(i, resp)
    /\ UNCHANGED <<pc, args, grid, bboxes, exists, dir0, files, out, merges>>

\* the loop is over: merge, then the process ends
merge_osm_files ==
    /\ pc = "fetch"
    /\ i >= Len(bboxes)
    /\ \E listing \in Orders(OsmFiles(dir)) :
          /\ files' = listing
          /\ out' = MergeWrites(dir, listing)
    /\ merges' = merges + 1
    /\ pc' = "done"
    /\ UNCHANGED <<args, grid, bboxes, i, exists, dir, dir0, calls, sleeps>>

Next == main \/ fetch_osm_by_bbox \/ merge_osm_files

Spec == Init /\ [][Next]_vars

\* main runs to its end: nothing else is scheduled and every call returns
LiveSpec == Spec /\ WF_vars(Next)

(***************************************************************************)
(* Vocabulary of the properties.                                           *)
(***************************************************************************)
Range(q) == { q[k] : k \in 1..Len(q) }

\* sub occurs in q as a run of consecutive entries
Contains(q, sub) ==
    \E off \in 0..(Len(q) - Len(sub)) : SubSeq(q, off + 1, off + Len(sub)) = sub

RECURSIVE Flatten(_)
Flatten(qq) == IF qq = <<>> THEN <<>> ELSE Head(qq) \o Flatten(Tail(qq))

\* an envelope line: the XML declaration, the root open tag, the root close tag
IsEnvelope(line) ==
    \/ (Len(line) >= 5 /\ SubSeq(line, 1, 5) = <<"<","?","x","m","l">>)
    \/ (Len(line) >= 4 /\ SubSeq(line, 1, 4) = <<"<","o","s","m">>)
    \/ (Len(line) >= 5 /\ SubSeq(line, 1, 5) = <<"<","/","o","s","m">>)

NotEnvelope(line) == ~IsEnvelope(line)

\* the body of a document: its lines other than the envelope lines
BodyLines(text) == SelectSeq(SplitLines(text), NotEnvelope)

\* the artifact name of the k-th tile, k counted from 1
ArtifactName(k) ==
    <<"g","u","a","n","g","z","h","o","u","_","p","a","r","t","_">> \o Str(k)
    \o <<".","o","s","m">>

\* line is an element of the answer to request k
IsElementOf(line, k) ==
    StartsWith(line, <<" "," ","<","n","o","d","e"," ","i","d","=","\"">> \o Str(k) \o <<"\"">>)

\* min <= max on both axes (every step of StepValues is positive)
ValidArgs(a) == FLeq(a.min_lat, a.max_lat) /\ FLeq(a.min_lon, a.max_lon)

\* the tile the formula of the Tiler gives for row r, column c
ExpectedTile(a, r, c) ==
    << FAdd(a.min_lat, FMul(FromInt(r), a.step)),
       FAdd(a.min_lon, FMul(FromInt(c), a.step)),
       FMin(FAdd(a.min_lat, FMul(FromInt(r + 1), a.step)), a.max_lat),
       FMin(FAdd(a.min_lon, FMul(FromInt(c + 1), a.step)), a.max_lon) >>

\* floor(a) as an integer (the documented row count uses floor; the code
\* uses int, see FInt)
FFloor(a) ==
    IF a.s = -1 /\ a.e < 0 THEN FInt(a) - 1 ELSE FInt(a)

\* floor((hi - lo) / step) + 1
FloorCount(lo, hi, step) == FFloor(FDiv(FSub(hi, lo), step)) + 1

\* the count and the row-major positions the formula gives
RowMajorFormula(a) ==
    LET rows == FloorCount(a.min_lat, a.max_lat, a.step)
        cols == FloorCount(a.min_lon, a.max_lon, a.step)
    IN  /\ Len(bboxes) = rows * cols
        /\ \A r \in 0..(rows - 1) : \A c \in 0..(cols - 1) :
              /\ r * cols + c + 1 \in 1..Len(bboxes)
              /\ bboxes[r * cols + c + 1] = ExpectedTile(a, r, c)

UnitArgs == Area(FromInt(0), FromInt(1), FromInt(0), FromInt(1), FromInt(1))

C3Args == Area(Dec(225, 10), Dec(227, 10), Dec(1125, 10), Dec(1127, 10), Dec(1, 10))

\* the one-axis intervals [tile_min, tile_max) of the tiles
LatIntervals == { <<b[1], b[3]>> : b \in Range(bboxes) }

LonIntervals == { <<b[2], b[4]>> : b \in Range(bboxes) }

\* every tile bound x with lo <= x < hi lies in exactly one interval
AxisPartition(I, lo, hi) ==
    \A x \in {lo} \cup { iv[1] : iv \in I } \cup { iv[2] : iv \in I } :
        (FLeq(lo, x) /\ FLess(x, hi)) =>
            Cardinality({ iv \in I : FLeq(iv[1], x) /\ FLess(x, iv[2]) }) = 1

OkCalls == { k \in 1..Len(calls) : calls[k].ok }

FailedCalls == { k \in 1..Len(calls) : ~calls[k].ok }

(***************************************************************************)
(* Properties.                                                             *)
(***************************************************************************)
\* C1: every Fetcher call is followed by the 2-second pause, whether it
\* succeeded or failed: at any moment the number of pauses taken equals the
\* number of calls made, so a run over N cells performs exactly N pauses.
C1_PauseAfterEveryCall ==
    /\ sleeps = Len(calls)
    /\ (pc = "done" => sleeps = Len(bboxes))

\* C2: in a run started on an empty artifact directory, whatever fetches
\* fail, every cell is attempted, the Merger runs, and the Combined Document
\* holds the body of every cell whose fetch succeeded and no element of a
\* cell whose fetch failed.
C2_FailuresDoNotAbort ==
    (pc = "done" /\ dir0.files = NoFiles) =>
        /\ Len(calls) = Len(bboxes)
        /\ merges = 1
        /\ \A k \in OkCalls : Contains(out, BodyLines(calls[k].text))
        /\ \A k \in FailedCalls : \A n \in 1..Len(out) : ~IsElementOf(out[n], k)

C2_Witness ==
    /\ pc = "done" /\ dir0.files = NoFiles
    /\ Len(calls) >= 4
    /\ ~calls[3].ok
    /\ \A k \in {1, 2, 4} : calls[k].ok /\ BodyLines(calls[k].text) # <<>>
    /\ Contains(out, BodyLines(calls[4].text))

\* C3: tile(22.5, 22.7, 112.5, 112.7, step=0.1) returns exactly the 4 tiles
\* (22.5,112.5,22.6,112.6), (22.5,112.6,22.6,112.7), (22.6,112.5,22.7,112.6),
\* (22.6,112.6,22.7,112.7), in this order.
C3_FourTiles ==
    (pc = "tiled" /\ args = C3Args) =>
        bboxes = << <<Dec(225, 10), Dec(1125, 10), Dec(226, 10), Dec(1126, 10)>>,
                    <<Dec(225, 10), Dec(1126, 10), Dec(226, 10), Dec(1127, 10)>>,
                    <<Dec(226, 10), Dec(1125, 10), Dec(227, 10), Dec(1126, 10)>>,
                    <<Dec(226, 10), Dec(1126, 10), Dec(227, 10), Dec(1127, 10)>> >>

\* C4: for min <= max on both axes and step > 0 the tiles partition the
\* input rectangle: on each axis every coordinate of the input range below
\* the outer max bound lies in the half-open interval of exactly one row
\* (column), and no tile's max exceeds the input max.
C4_Partition ==
    (pc = "tiled" /\ ValidArgs(args)) =>
        /\ AxisPartition(LatIntervals, args.min_lat, args.max_lat)
        /\ AxisPartition(LonIntervals, args.min_lon, args.max_lon)
        /\ \A b \in Range(bboxes) : FLeq(b[3], args.max_lat) /\ FLeq(b[4], args.max_lon)

\* C5, as stated: for every step > 0 the Tiler returns exactly
\* (floor((max_lat-min_lat)/step)+1) * (floor((max_lon-min_lon)/step)+1)
\* tiles, the tile at position i*col_count + j being the (i, j) tile of the
\* formula; tile(0,1,0,1,step=1) returns 4 tiles.
C5_AnyRange ==
    pc = "tiled" =>
        /\ RowMajorFormula(args)
        /\ (args = UnitArgs => Len(bboxes) = 4)

\* C5, amended: the same for step > 0 and min <= max on both axes.
C5_RowMajor ==
    (pc = "tiled" /\ ValidArgs(args)) =>
        /\ RowMajorFormula(args)
        /\ (args = UnitArgs => Len(bboxes) = 4)

C5_Witness ==
    /\ pc = "tiled" /\ args = UnitArgs
    /\ Len(bboxes) = 4
    /\ bboxes[4] = <<FromInt(1), FromInt(1), FromInt(1), FromInt(1)>>

\* C6: the Combined Document is the XML declaration line, one root open-tag
\* line, then for each file whose name ends with .osm, and for no other
\* file, that file's lines in order except the envelope lines, then one
\* closing root tag; exactly one opening and one closing envelope line is
\* written however many artifacts are merged.
C6_MergedDocument ==
    pc = "done" =>
        /\ Range(files) = { f \in DOMAIN dir :
                              Len(f) >= 4 /\ SubSeq(f, Len(f) - 3, Len(f)) = <<".","o","s","m">> }
        /\ Len(files) = Cardinality(Range(files))
        /\ out = <<XmlDecl, OsmOpen>>
                 \o Flatten([k \in 1..Len(files) |-> BodyLines(dir[files[k]])])
                 \o <<OsmClose>>
        /\ Cardinality({ n \in 1..Len(out) : StartsWith(out[n], <<"<","?","x","m","l">>) }) = 1
        /\ Cardinality({ n \in 1..Len(out) : StartsWith(out[n], <<"<","o","s","m">>) }) = 1
        /\ Cardinality({ n \in 1..Len(out) : StartsWith(out[n], <<"<","/","o","s","m">>) }) = 1

C6_Witness ==
    /\ pc = "done"
    /\ Len(files) >= 3
    /\ \E f \in DOMAIN dir : f \notin Range(files)
    /\ \E f \in Range(files) : Len(BodyLines(dir[f])) < Len(SplitLines(dir[f]))
    /\ Len(out) >= 6

\* C7: whatever the fetch outcomes, the driver eventually runs the final
\* merge, exactly once, only after every grid cell has been attempted, and
\* then terminates.
C7_MergeOnceThenEnd ==
    /\ <>[](pc = "done" /\ merges = 1)
    /\ [](merges <= 1)
    /\ [](merges = 1 => (pc = "done" /\ Len(calls) = Len(bboxes)))

C7_Witness ==
    /\ pc = "done" /\ merges = 1
    /\ Len(bboxes) >= 4
    /\ FailedCalls # {} /\ OkCalls # {}

\* C8: the k-th fetch is for the k-th tile of the Tiler and writes only to
\* the artifact named with index k; no two cells share an artifact path; a
\* successful fetch leaves exactly its response body at that path, replacing
\* earlier content.
C8_ArtifactPerCell ==
    /\ \A k \in 1..Len(calls) :
          /\ calls[k].bbox = bboxes[k]
          /\ calls[k].output_file = ArtifactName(k)
    /\ \A k \in 1..Len(calls) : \A h \in 1..Len(calls) :
          k # h => calls[k].output_file # calls[h].output_file
    /\ DOMAIN dir = DOMAIN dir0.files \cup { ArtifactName(k) : k \in OkCalls }
    /\ \A k \in OkCalls : dir[ArtifactName(k)] = calls[k].text
    /\ \A f \in DOMAIN dir0.files :
          f \notin { ArtifactName(k) : k \in OkCalls } => dir[f] = dir0.files[f]

C8_Witness ==
    /\ Len(calls) >= 3
    /\ calls[1].ok /\ calls[3].ok
    /\ ArtifactName(1) \in DOMAIN dir0.files
    /\ dir[ArtifactName(1)] # dir0.files[ArtifactName(1)]
    /\ dir[ArtifactName(3)] = calls[3].text

\* C9: for min <= max on both axes and step > 0 every tile returned has
\* min_lat <= max_lat and min_lon <= max_lon.
C9_MinLeqMax ==
    (pc = "tiled" /\ ValidArgs(args)) =>
        \A b \in Range(bboxes) : FLeq(b[1], b[3]) /\ FLeq(b[2], b[4])

\* C10: a Fetcher call that fails leaves the artifact directory unchanged;
\* an artifact present at its path before the run keeps its content and the
\* merge picks it up.
C10_FailedFetchWritesNothing ==
    /\ [][(Len(calls') = Len(calls) + 1 /\ ~calls'[Len(calls')].ok) => dir' = dir]_vars
    /\ [](pc = "done" =>
            \A k \in FailedCalls :
                ArtifactName(k) \in DOMAIN dir0.files =>
                    /\ dir[ArtifactName(k)] = dir0.files[ArtifactName(k)]
                    /\ ArtifactName(k) \in Range(files)
                    /\ Contains(out, BodyLines(dir0.files[ArtifactName(k)])))

C10_Witness ==
    /\ pc = "done"
    /\ Len(calls) >= 2
    /\ ~calls[1].ok /\ calls[2].ok
    /\ ArtifactName(1) \in DOMAIN dir0.files
    /\ dir[ArtifactName(1)] = StaleText
    /\ Contains(out, BodyLines(StaleText))
    /\ BodyLines(StaleText) # <<>>
====
